---- MODULE Spec2Model ----
(***************************************************************************)
(* dispatch_ng: the interface manager (src/src/interface.c), the startup   *)
(* sequence (src/src/main.c) and the sessions that borrow interfaces.      *)
(*                                                                         *)
(* Interfaces live in a heap (a sequence of Interface objects, indexed in  *)
(* allocation order); manager->ifaces[i] is the list of heap indices       *)
(* chained through ->next, head first.                                     *)
(***************************************************************************)
EXTENDS Integers, Sequences, FiniteSets

\* ------------------------------------------------------------------ bounds
MaxIfaces == 2        \* interfaces given on the command line
MaxHeld == 10         \* sockets held open at once by the balancer's caller
NumSessions == 2      \* client connections accepted
MaxBinds == 2         \* --bind arguments given on the command line
MaxBytes == 2         \* bytes a peer sends in one direction of a relay
BufSize == 1          \* bytes one direction of a relay can hold
MaxAgain == 2         \* temporary errors the calls made for one session meet

\* --------------------------------------------------------------- constants
NULL == 0
INTERFACE_OFF_INET == 0
INTERFACE_OFF_INET6 == 1
INTERFACE_N_TYPES == 2

\* Weights an "addr@metric" argument may carry (main.c usage text).
Metrics == {1, 3}

Types == 0 .. (INTERFACE_N_TYPES - 1)
AddrTypes == 0 .. 3          \* every mask over the INTERFACE_N_TYPES bits

VARIABLES
    phase,      \* "startup" | "running" | "aborted": where main() is
    ifaces,     \* manager->ifaces: [Types -> Seq(heap index)], head first
    heap,       \* the Interface objects: Seq([family, metric, use_count])
    op,         \* the balancer call made last: "none" | "get" | "open" | "close"
    addr_type,  \* argument of the last interface_manager_get
    selected,   \* its return value (NULL or a heap index)
    held,       \* [heap index -> number of opens not yet closed] by the caller
    any_closed, \* TRUE once the caller has closed a socket
    sessions,   \* [1 .. NumSessions -> Session], in the order they are accepted
    listeners,  \* the server_create calls made: Seq([addr, fd, handle])
    bound,      \* main's `bound`: 1 once a --bind argument was read
    bind_args,  \* history: the values of the --bind arguments read, in order
    conv        \* the last address conversion made: its input and its result

vars ==
    <<phase, ifaces, heap, op, addr_type, selected, held, any_closed, sessions,
      listeners, bound, bind_args, conv>>

mainVars == <<listeners, bound, bind_args>>

balVars == <<op, addr_type, selected, held, any_closed>>

\* ------------------------------------------------------- interface manager

\* interface_manager_new: every bucket empty.
interface_manager_new == [i \in Types |-> <<>>]

TypeSelectedAny(at, i) == TRUE

\* addr_type & (1 << i)
TypeSelected(at, i) == (at \div (2 ^ i)) % 2 = 1

SelectStepFirst(h, sel, iter) == IF sel = NULL THEN iter ELSE sel

\* The body of the inner loop of interface_manager_get: the first interface
\* met is taken, a later one only when its use_count is strictly smaller.
SelectStep(h, sel, iter) ==
    IF sel = NULL THEN iter
    ELSE IF h[iter].use_count < h[sel].use_count THEN iter
    ELSE sel

RECURSIVE ScanList(_, _, _)
\* for (iter = manager->ifaces[i]; iter; iter = iter->next)
ScanList(h, list, sel) ==
    IF list = <<>> THEN sel
    ELSE ScanList(h, Tail(list), SelectStep(h, sel, Head(list)))

RECURSIVE ScanTypes(_, _, _, _, _)
\* for (i = 0; i < INTERFACE_N_TYPES; i++)
ScanTypes(mgr, h, at, i, sel) ==
    IF i >= INTERFACE_N_TYPES THEN sel
    ELSE IF ~TypeSelected(at, i) THEN ScanTypes(mgr, h, at, i + 1, sel)
    ELSE ScanTypes(mgr, h, at, i + 1, ScanList(h, mgr[i], sel))

interface_manager_get(mgr, h, at) == ScanTypes(mgr, h, at, 0, NULL)

interface_open_twice(h, i) == [h EXCEPT ![i].use_count = @ + 2]

\* g_atomic_int_inc(&(interface->use_count))
interface_open(h, i) == [h EXCEPT ![i].use_count = @ + 1]

interface_close_noop(h, i) == h

interface_close_twice(h, i) == [h EXCEPT ![i].use_count = @ - 2]

\* g_atomic_int_add(&(interface->use_count), -1)
interface_close(h, i) == [h EXCEPT ![i].use_count = @ - 1]

\* interface->next = manager->ifaces[addr_type];
\* manager->ifaces[addr_type] = interface;
ListInsertTail(list, i) == Append(list, i)

ListInsert(list, i) == <<i>> \o list

\* A freshly allocated interface: use_count = 0.  The metric is the weight
\* of the "addr@metric" argument; nothing in interface.c reads it.
NewInterface(family, metric) ==
    [family |-> family, metric |-> metric, use_count |-> 0]

\* -------------------------------------------------------------- socket layer

\* The errno values told apart by errno_to_error_type; EACCES stands for
\* every value it does not name.
Errnos ==
    {"EAGAIN", "EWOULDBLOCK", "EINTR", "EBADF", "ENOTSOCK", "EINPROGRESS", "EALREADY",
     "ETIMEDOUT", "ENETUNREACH", "EHOSTUNREACH", "ECONNREFUSED", "EACCES"}

IO_TEMP_ERROR_never(e) == FALSE

\* IO_TEMP_ERROR: whether the error is a temporary issue.
IO_TEMP_ERROR(e) == e = "EAGAIN" \/ e = "EWOULDBLOCK" \/ e = "EINTR"

\* The errno values a non-blocking call leaves when it has only to be
\* made again.
TemporaryErrnos == {"EAGAIN", "EWOULDBLOCK", "EINTR"}

errno_to_error_type_generic(e) == "socket_error_generic"

\* errno_to_error_type: the error kind for an errno value.
errno_to_error_type(e) ==
    IF IO_TEMP_ERROR(e) THEN "socket_error_again"
    ELSE IF e = "EBADF" \/ e = "ENOTSOCK" THEN "socket_error_invalid_socket"
    ELSE IF e = "EINPROGRESS" THEN "socket_error_in_progress"
    ELSE IF e = "EALREADY" THEN "socket_error_already"
    ELSE IF e = "ETIMEDOUT" THEN "socket_error_timeout"
    ELSE IF e = "ENETUNREACH" THEN "socket_error_network_unreachable"
    ELSE IF e = "EHOSTUNREACH" THEN "socket_error_host_unreachable"
    ELSE IF e = "ECONNREFUSED" THEN "socket_error_connection_refused"
    ELSE "socket_error_generic"

\* The errno a failing connect() leaves on a handle: on a handle that is
\* no socket it is EBADF or ENOTSOCK; on the descriptor it is any other
\* value that ends the attempt (EINPROGRESS is the expected course, and a
\* temporary error only parks the session).
ConnectErrnos(hd) ==
    IF hd = "fd"
    THEN {e \in Errnos : /\ ~IO_TEMP_ERROR(e)
                         /\ e \notin {"EINPROGRESS", "EBADF", "ENOTSOCK"}}
    ELSE {"EBADF", "ENOTSOCK"}

\* The errno SO_ERROR holds once a connect in progress has failed.
StatusErrnos == ConnectErrnos("fd") \ {"EALREADY"}

\* close(fd) on a descriptor in the given condition; a second close of the
\* same descriptor is remembered as "twice".
sys_close(fd) ==
    IF fd = "open" THEN "closed"
    ELSE IF fd = "closed" THEN "twice"
    ELSE fd

\* What can happen inside create_socket: every call succeeds, or socket(),
\* setsockopt() or bind() fails.
CreateOutcomes == {"ok", "socket", "setsockopt", "bind"}

\* ... and inside socket_handle_create_listener, where listen() may fail too.
ListenerOutcomes == CreateOutcomes \cup {"listen"}

\* create_socket: the descriptor it made and whether *fd_out was written.
\* After socket() has succeeded, a failing setsockopt() or bind() closes
\* the descriptor before the error is returned.
create_socket(o) ==
    [fd |-> IF o = "socket" THEN "none"
            ELSE IF o = "ok" THEN "open"
            ELSE sys_close("open"),
     handle |-> o = "ok"]

\* socket_handle_create_listener: create_socket, then listen(); a failing
\* listen() closes the descriptor and *hd_out is not written.
socket_handle_create_listener(o) ==
    LET c == create_socket(IF o = "listen" THEN "ok" ELSE o) IN
    IF c.handle /\ o = "listen"
    THEN [fd |-> sys_close(c.fd), handle |-> FALSE]
    ELSE c

\* The values --bind may carry, and the two listeners made without it.
BindArgs == {"0.0.0.0:1080", "[::]:8080"}

DefaultBinds == <<"127.0.0.1:1080", "[::1]:1080">>

\* server_create(addr): the listener made for one listening address.
server_create(a, o) ==
    LET l == socket_handle_create_listener(o) IN
    [addr |-> a, fd |-> l.fd, handle |-> l.handle]

\* ---------------------------------------------------------------- addresses

\* The number of 16-bit groups of an IPv6 address (the loops `i < 8`).
Groups6 == 8

Bytes == 0 .. 255

\* HostAddress: the family and the 16 bytes of `ip` (network order; an
\* IPv4 address uses the first four).
HostAddress(type, ip) == [type |-> type, ip |-> ip]

\* memset(&addr, 0, sizeof(HostAddress))
ZeroIp == [k \in 1 .. 16 |-> 0]

\* const char lut[16] = "0123456789abcdef"
lut ==
    <<"0", "1", "2", "3", "4", "5", "6", "7",
      "8", "9", "a", "b", "c", "d", "e", "f">>

\* ntohs and htons on a little-endian host: the two bytes are swapped;
\* htons first narrows its argument to 16 bits.
ntohs(x) == (x % 256) * 256 + (x \div 256)

htons(x) == ntohs(x % 65536)

\* pun[i] of host_address_to_str: the i-th uint16_t in `ip`, as the host
\* reads it (i counts from 0).
pun(ip, i) == ip[2 * i + 1] + 256 * ip[2 * i + 2]

\* snprintf's %u
RECURSIVE Decimal(_)
Decimal(n) ==
    IF n < 10 THEN <<lut[n + 1]>>
    ELSE Decimal(n \div 10) \o <<lut[(n % 10) + 1]>>

\* Text of more than one character from its pieces.
RECURSIVE Join(_, _)
Join(pieces, sep) ==
    IF Len(pieces) = 0 THEN <<>>
    ELSE IF Len(pieces) = 1 THEN pieces[1]
    ELSE pieces[1] \o sep \o Join(Tail(pieces), sep)

RunIsLongerOrEqual(maxlen, len) == maxlen <= len

\* if (maxlen < len)
RunIsLonger(maxlen, len) == maxlen < len

\* One turn of the loop that finds the largest sequence of zeroes, at
\* group i, on the loop's variables st = [pos, len, maxpos, maxlen].
ZeroScanStep(st, ip, i) ==
    IF pun(ip, i) # 0
    THEN [st EXCEPT !.pos = -1, !.len = 0]
    ELSE LET t == IF st.pos = -1
                  THEN [st EXCEPT !.pos = i, !.len = 1]
                  ELSE [st EXCEPT !.len = @ + 1] IN
         IF RunIsLonger(t.maxlen, t.len)
         THEN [t EXCEPT !.maxpos = t.pos, !.maxlen = t.len]
         ELSE t

RECURSIVE ZeroScan(_, _, _)
ZeroScan(st, ip, i) ==
    IF i >= Groups6 THEN st ELSE ZeroScan(ZeroScanStep(st, ip, i), ip, i + 1)

\* One 16-bit chunk: the digits from j down to 0, none written before the
\* first that is not zero, the last always written.
RECURSIVE WriteChunk(_, _, _)
WriteChunk(part, j, mode) ==
    IF j < 0 THEN <<>>
    ELSE LET digit == (part \div (16 ^ j)) % 16
             m == mode \/ digit # 0 \/ j = 0 IN
         (IF m THEN <<lut[digit + 1]>> ELSE <<>>)
         \o WriteChunk(part, j - 1, m)

\* The loop that writes the groups from group i on.
RECURSIVE WriteGroups(_, _, _, _)
WriteGroups(ip, i, colon_flag, run) ==
    IF i >= Groups6 THEN <<>>
    ELSE IF i = run.maxpos
    THEN <<":", ":">> \o WriteGroups(ip, i + run.maxlen, FALSE, run)
    ELSE (IF colon_flag THEN <<":">> ELSE <<>>)
         \o WriteChunk(ntohs(pun(ip, i)), 3, FALSE)
         \o WriteGroups(ip, i + 1, TRUE, run)

\* host_address_to_str
host_address_to_str(addr) ==
    IF addr.type = "NETWORK_INET"
    THEN Join([k \in 1 .. 4 |-> Decimal(addr.ip[k])], <<".">>)
    ELSE LET run == ZeroScan([pos |-> -1, len |-> 0, maxpos |-> -1,
                              maxlen |-> 0], addr.ip, 0) IN
         <<"[">> \o WriteGroups(addr.ip, 0, FALSE, run) \o <<"]">>

\* The value of a character as a digit in the given base, -1 if it is none;
\* above 9 both cases of the letter count.
UpperDigits == <<"A", "B", "C", "D", "E", "F">>

DigitValue(ch, base) ==
    LET low == {d \in 0 .. base - 1 : lut[d + 1] = ch}
        up == {d \in 10 .. base - 1 : UpperDigits[d - 9] = ch} IN
    IF low \cup up = {} THEN -1 ELSE CHOOSE d \in low \cup up : TRUE

\* inet_pton(AF_INET, ...): four decimal octets of at most 255, without
\* leading zeros, separated by dots.  `octs` are the octets completed,
\* `cur` the one being read, `saw` whether a digit of it was read.
RECURSIVE inet_pton4(_, _, _, _, _)
inet_pton4(str, k, octs, cur, saw) ==
    IF k > Len(str)
    THEN IF saw /\ Len(octs) = 3
         THEN [res |-> 1, ip |-> [j \in 1 .. 16 |->
                                    IF j <= 3 THEN octs[j]
                                    ELSE IF j = 4 THEN cur ELSE 0]]
         ELSE [res |-> 0, ip |-> ZeroIp]
    ELSE LET d == DigitValue(str[k], 10) IN
         IF d >= 0
         THEN IF (saw /\ cur = 0) \/ cur * 10 + d > 255
              THEN [res |-> 0, ip |-> ZeroIp]
              ELSE inet_pton4(str, k + 1, octs, cur * 10 + d, TRUE)
         ELSE IF str[k] = "." /\ saw /\ Len(octs) < 3
         THEN inet_pton4(str, k + 1, Append(octs, cur), 0, FALSE)
         ELSE [res |-> 0, ip |-> ZeroIp]

\* The 16 bytes of eight groups, each stored high byte first.
GroupBytes(gs) ==
    [j \in 1 .. 16 |->
        IF j % 2 = 1 THEN gs[(j + 1) \div 2] \div 256 ELSE gs[j \div 2] % 256]

\* inet_pton(AF_INET6, ...) on text without an embedded IPv4 part: groups
\* of one to four hex digits separated by colons, "::" at most once for
\* one or more zero groups.  `gs` are the groups stored, `colonp` the
\* number of groups stored when "::" was met (-1 before), `val` and `ndig`
\* the group being read and the number of its digits.
RECURSIVE inet_pton6(_, _, _, _, _, _)
inet_pton6(str, k, gs, colonp, val, ndig) ==
    LET fail == [res |-> 0, ip |-> ZeroIp] IN
    IF k > Len(str)
    THEN LET all == IF ndig > 0 THEN Append(gs, val) ELSE gs IN
         IF Len(all) > Groups6 THEN fail
         ELSE IF colonp # -1
         THEN IF Len(all) = Groups6 THEN fail
              ELSE [res |-> 1,
                    ip |-> GroupBytes(
                        SubSeq(all, 1, colonp)
                        \o [j \in 1 .. Groups6 - Len(all) |-> 0]
                        \o SubSeq(all, colonp + 1, Len(all)))]
         ELSE IF Len(all) = Groups6 THEN [res |-> 1, ip |-> GroupBytes(all)]
         ELSE fail
    ELSE LET d == DigitValue(str[k], 16) IN
         IF d >= 0
         THEN IF ndig = 4 THEN fail
              ELSE inet_pton6(str, k + 1, gs, colonp, val * 16 + d, ndig + 1)
         ELSE IF str[k] = ":"
         THEN IF ndig = 0
              THEN IF colonp # -1 THEN fail
                   ELSE inet_pton6(str, k + 1, gs, Len(gs), 0, 0)
              ELSE IF k = Len(str) \/ Len(gs) + 1 > Groups6 THEN fail
                   ELSE inet_pton6(str, k + 1, Append(gs, val), colonp, 0, 0)
         ELSE fail

\* inet_pton: a leading colon of IPv6 text must begin a "::".
inet_pton(af, str) ==
    IF af = "AF_INET" THEN inet_pton4(str, 1, <<>>, 0, FALSE)
    ELSE IF Len(str) >= 1 /\ str[1] = ":"
    THEN IF Len(str) >= 2 /\ str[2] = ":"
         THEN inet_pton6(str, 2, <<>>, -1, 0, 0)
         ELSE [res |-> 0, ip |-> ZeroIp]
    ELSE inet_pton6(str, 1, <<>>, -1, 0, 0)

\* Whether position k of str lies between a '[' and the next ']'.
InBrackets(str, k) ==
    \E i \in 1 .. k - 1 :
        str[i] = "[" /\ \A j \in i + 1 .. k : str[j] # "]"

\* split_string(str, ch, &rest): the text before and after the last ch
\* outside brackets; `found` is FALSE (NULL returned) when there is none.
split_string(str, ch) ==
    LET at == {k \in 1 .. Len(str) : str[k] = ch /\ ~InBrackets(str, k)} IN
    IF at = {} THEN [found |-> FALSE, head |-> <<>>, rest |-> <<>>]
    ELSE LET k == CHOOSE x \in at : \A y \in at : y <= x IN
         [found |-> TRUE, head |-> SubSeq(str, 1, k - 1),
          rest |-> SubSeq(str, k + 1, Len(str))]

\* The value of a text of decimal digits.
RECURSIVE DecimalValue(_)
DecimalValue(str) ==
    IF Len(str) = 0 THEN 0
    ELSE DecimalValue(SubSeq(str, 1, Len(str) - 1)) * 10
         + DigitValue(str[Len(str)], 10)

\* parse_long(str, &value): a whole text that is a decimal number with an
\* optional sign.
parse_long(str) ==
    LET neg == Len(str) >= 1 /\ str[1] = "-"
        digits == IF neg THEN Tail(str) ELSE str IN
    IF Len(digits) = 0 \/ \E k \in 1 .. Len(digits) : DigitValue(digits[k], 10) < 0
    THEN [status |-> "STATUS_FAILURE", value |-> 0]
    ELSE [status |-> "STATUS_SUCCESS",
          value |-> IF neg THEN 0 - DecimalValue(digits)
                    ELSE DecimalValue(digits)]

ReturnFailureZeroed(addr_out) ==
    [status |-> "STATUS_FAILURE", out |-> HostAddress("NETWORK_NONE", ZeroIp)]

\* return STATUS_FAILURE before *addr_out is assigned: the caller's
\* address is what it was.
ReturnFailure(addr_out) == [status |-> "STATUS_FAILURE", out |-> addr_out]

\* while (isspace(*str)) str++
RECURSIVE SkipSpace(_)
SkipSpace(str) ==
    IF Len(str) > 0 /\ str[1] = " " THEN SkipSpace(Tail(str)) ELSE str

\* host_address_from_str(str, addr_out): the status returned and the
\* caller's address afterwards.
host_address_from_str(str0, addr_out) ==
    LET str == SkipSpace(str0)
        failure == ReturnFailure(addr_out) IN
    IF Len(str) > 0 /\ str[1] = "["
    THEN LET ip6_str == split_string(Tail(str), "]") IN
         IF ~ip6_str.found THEN failure
         ELSE LET r == inet_pton("AF_INET6", ip6_str.head) IN
              IF r.res # 1 THEN failure
              ELSE [status |-> "STATUS_SUCCESS",
                    out |-> HostAddress("NETWORK_INET6", r.ip)]
    ELSE LET r == inet_pton("AF_INET", str) IN
         IF r.res # 1 THEN failure
         ELSE [status |-> "STATUS_SUCCESS",
               out |-> HostAddress("NETWORK_INET", r.ip)]

\* SocketAddress: the host and the port in network byte order.
SocketAddress(host, port) == [host |-> host, port |-> port]

\* socket_address_to_str
socket_address_to_str(addr) ==
    host_address_to_str(addr.host) \o <<":">> \o Decimal(ntohs(addr.port))

\* socket_address_from_str(str, addr_out): the status returned and the
\* caller's address afterwards.
socket_address_from_str(str, addr_out) ==
    LET sp == split_string(str, ":")
        failure == ReturnFailure(addr_out) IN
    IF ~sp.found THEN failure
    ELSE IF Len(sp.rest) = 0 THEN failure
    ELSE LET port == parse_long(sp.rest) IN
         IF port.status # "STATUS_SUCCESS" THEN failure
         ELSE LET h == host_address_from_str(
                           sp.head, HostAddress("NETWORK_NONE", ZeroIp)) IN
              IF h.status # "STATUS_SUCCESS" THEN failure
              ELSE [status |-> "STATUS_SUCCESS",
                    out |-> SocketAddress(h.out, htons(port.value))]

\* No address: the caller's output before a conversion writes it.
NoAddress == <<>>

\* No conversion made yet.  `addr` is the address a text was written from,
\* `given` the number a port text was written from (history), `status` and
\* `out` what the last from_str returned and left in the caller's address,
\* `prior` what that address held before the call.
NoConversion ==
    [op |-> "none", addr |-> NoAddress, given |-> 0, text |-> <<>>,
     prior |-> NoAddress, status |-> "none", out |-> NoAddress]

\* The IPv6 addresses converted: every pattern of zero and non-zero
\* groups, the non-zero groups taken from GroupValues in two rotations.
GroupValues == <<1, 171, 2748, 43981, 4096, 256, 10, 65535>>

Hosts6 ==
    {HostAddress("NETWORK_INET6",
                 GroupBytes([i \in 1 .. Groups6 |->
                     IF i \in z THEN 0
                     ELSE GroupValues[((i + k) % Groups6) + 1]])) :
        z \in SUBSET (1 .. Groups6), k \in 0 .. 1}

\* The IPv4 addresses converted.
Hosts4 ==
    {HostAddress("NETWORK_INET",
                 [j \in 1 .. 16 |-> IF j <= 4 THEN q[j] ELSE 0]) :
        q \in {<<127, 0, 0, 1>>, <<0, 0, 0, 0>>, <<255, 255, 255, 255>>,
               <<10, 0, 200, 9>>, <<192, 168, 1, 100>>}}

\* The hosts of the socket addresses converted.
SocketHosts ==
    Hosts4 \cup {h \in Hosts6 :
                    \A j \in 1 .. 16 : h.ip[j] # 0 => j \in {1, 2, 15, 16}}

\* The ports of the socket addresses written, and the numbers given as
\* port in the texts read.
Ports == {1, 80, 255, 256, 1080, 65535}

PortNumbers == Ports \cup {-1, 0, 65536, 70000}

\* A number as the decimal text a user writes.
SignedDecimal(n) == IF n < 0 THEN <<"-">> \o Decimal(0 - n) ELSE Decimal(n)

\* The conversions are pure: each behaviour follows one of them, and the
\* reading back of what it wrote.

\* host_address_to_str(h, out)
HostToStr(h) ==
    /\ conv.op = "none"
    /\ conv' = [NoConversion EXCEPT !.op = "host_address_to_str",
                                    !.addr = h,
                                    !.text = host_address_to_str(h)]
    /\ UNCHANGED <<phase, ifaces, heap, balVars, sessions, mainVars>>

\* host_address_from_str on the text just written.
HostFromStr ==
    LET r == host_address_from_str(conv.text, conv.out) IN
    /\ conv.op = "host_address_to_str"
    /\ conv' = [conv EXCEPT !.op = "host_address_from_str",
                            !.status = r.status,
                            !.out = r.out]
    /\ UNCHANGED <<phase, ifaces, heap, balVars, sessions, mainVars>>

\* socket_address_to_str(a, out)
SocketToStr(a) ==
    /\ conv.op = "none"
    /\ conv' = [NoConversion EXCEPT !.op = "socket_address_to_str",
                                    !.addr = a,
                                    !.given = ntohs(a.port),
                                    !.text = socket_address_to_str(a)]
    /\ UNCHANGED <<phase, ifaces, heap, balVars, sessions, mainVars>>

\* socket_address_from_str on the text just written.
SocketFromStr ==
    LET r == socket_address_from_str(conv.text, conv.out) IN
    /\ conv.op = "socket_address_to_str"
    /\ conv' = [conv EXCEPT !.op = "socket_address_from_str",
                            !.status = r.status,
                            !.out = r.out]
    /\ UNCHANGED <<phase, ifaces, heap, balVars, sessions, mainVars>>

\* socket_address_from_str on a text a user wrote: host h, a colon and the
\* number n.
SocketParse(h, n) ==
    LET str == host_address_to_str(h) \o <<":">> \o SignedDecimal(n)
        r == socket_address_from_str(str, NoAddress) IN
    /\ conv.op = "none"
    /\ conv' = [NoConversion EXCEPT !.op = "socket_address_from_str",
                                    !.given = n,
                                    !.text = str,
                                    !.status = r.status,
                                    !.out = r.out]
    /\ UNCHANGED <<phase, ifaces, heap, balVars, sessions, mainVars>>

\* Texts host_address_from_str cannot read:
\*   [::1             no closing bracket
\*   [1::2::3]        "::" twice
\*   [12345::]        a group of five digits
\*   [:1]             a single leading colon
\*   1.2.3            three octets
\*   300.1.1.1        an octet above 255
\*   localhost        a name
\*    [::g]           a letter that is no hex digit
BadHostTexts ==
    {<<"[", ":", ":", "1">>,
     <<"[", "1", ":", ":", "2", ":", ":", "3", "]">>,
     <<"[", "1", "2", "3", "4", "5", ":", ":", "]">>,
     <<"[", ":", "1", "]">>,
     <<"1", ".", "2", ".", "3">>,
     <<"3", "0", "0", ".", "1", ".", "1", ".", "1">>,
     <<"l", "o", "c", "a", "l", "h", "o", "s", "t">>,
     <<" ", "[", ":", ":", "g", "]">>}

\* Texts socket_address_from_str cannot read:
\*   127.0.0.1        no port
\*   127.0.0.1:       an empty port
\*   127.0.0.1:8x     a port that is no number
\*   [::1:80          no closing bracket
\*   1.2.3:80         an unparsable host
\*   [::1]            no port after the bracket
\*   [1::2::3]:80     an unparsable IPv6 host
\*   :80              an empty host
BadSocketTexts ==
    {<<"1", "2", "7", ".", "0", ".", "0", ".", "1">>,
     <<"1", "2", "7", ".", "0", ".", "0", ".", "1", ":">>,
     <<"1", "2", "7", ".", "0", ".", "0", ".", "1", ":", "8", "x">>,
     <<"[", ":", ":", "1", ":", "8", "0">>,
     <<"1", ".", "2", ".", "3", ":", "8", "0">>,
     <<"[", ":", ":", "1", "]">>,
     <<"[", "1", ":", ":", "2", ":", ":", "3", "]", ":", "8", "0">>,
     <<":", "8", "0">>}

\* What the caller's address may hold before a from_str call.
PriorHosts ==
    {h \in Hosts4 \cup Hosts6 :
        \/ h.type = "NETWORK_INET" /\ h.ip[1] = 127
        \/ /\ h.type = "NETWORK_INET6"
           /\ \A i \in 0 .. Groups6 - 1 : pun(h.ip, i) # 0}

PriorSockets == {SocketAddress(h, htons(1080)) : h \in PriorHosts}

\* host_address_from_str on a text it cannot read, the caller's address
\* holding `prior`.
HostParseBad(str, prior) ==
    LET r == host_address_from_str(str, prior) IN
    /\ conv.op = "none"
    /\ conv' = [NoConversion EXCEPT !.op = "host_address_from_str",
                                    !.text = str,
                                    !.prior = prior,
                                    !.status = r.status,
                                    !.out = r.out]
    /\ UNCHANGED <<phase, ifaces, heap, balVars, sessions, mainVars>>

\* socket_address_from_str on a text it cannot read, the caller's address
\* holding `prior`.
SocketParseBad(str, prior) ==
    LET r == socket_address_from_str(str, prior) IN
    /\ conv.op = "none"
    /\ conv' = [NoConversion EXCEPT !.op = "socket_address_from_str",
                                    !.text = str,
                                    !.prior = prior,
                                    !.status = r.status,
                                    !.out = r.out]
    /\ UNCHANGED <<phase, ifaces, heap, balVars, sessions, mainVars>>

\* ----------------------------------------------------------------- sessions

\* A slot of `sessions` before its connection is accepted.  `iface` is the
\* interface the session holds (NULL when none); `in_sock` and `out_fd` are
\* the inbound descriptor and the descriptor interface_open created;
\* `out_hd` is the value interface_open handed back for it; `regs` are the
\* session's event registrations.  `acquired`, `releases`, `start_use` and
\* `others` are history: the interface ever acquired, the number of
\* interface_close calls made, the use_counts when the session was
\* accepted, and the net change other sessions made to them since.
\* `cmd` and `mask` are the CMD byte and the family mask of the request
\* read (0 before it is), `err` the errno of a failed connect, `reply` the
\* failure reply prepared for ReplyWriteThenClose, `relay` the two pipes
\* of a session in Relaying.  `transients` is history: the calls made for
\* the session that failed with one of TemporaryErrnos.
NoSession ==
    [state |-> "Unborn", iface |-> NULL, in_sock |-> "none",
     out_fd |-> "none", out_hd |-> "none", regs |-> {},
     acquired |-> NULL, releases |-> 0, start_use |-> <<>>, others |-> <<>>,
     cmd |-> 0, mask |-> 0, err |-> "none", reply |-> <<>>, relay |-> <<>>,
     transients |-> 0]

\* ------------------------------------------------------------------ startup

Init ==
    /\ phase = "startup"
    /\ ifaces = interface_manager_new
    /\ heap = <<>>
    /\ op = "none"
    /\ addr_type = 0
    /\ selected = NULL
    /\ held = <<>>
    /\ any_closed = FALSE
    /\ sessions = [s \in 1 .. NumSessions |-> NoSession]
    /\ listeners = <<>>
    /\ bound = 0
    /\ bind_args = <<>>
    /\ conv = NoConversion

\* main(): one positional argument, a valid address of the given family.
AddInterface(family, metric) ==
    /\ phase = "startup"
    /\ Len(heap) < MaxIfaces
    /\ heap' = Append(heap, NewInterface(family, metric))
    /\ ifaces' = [ifaces EXCEPT ![family] = ListInsert(@, Len(heap) + 1)]
    /\ held' = Append(held, 0)
    /\ UNCHANGED <<phase, op, addr_type, selected, any_closed, sessions, mainVars, conv>>

\* main(): a positional argument inet_pton rejects: g_error aborts.
AddInvalid ==
    /\ phase = "startup"
    /\ phase' = "aborted"
    /\ UNCHANGED <<ifaces, heap, balVars, sessions, mainVars, conv>>

\* main(): a --bind=a argument; server_create(a) gives a listener.
Bind(a) ==
    /\ phase = "startup"
    /\ Len(bind_args) < MaxBinds
    /\ listeners' = Append(listeners, server_create(a, "ok"))
    /\ bound' = 1
    /\ bind_args' = Append(bind_args, a)
    /\ UNCHANGED <<phase, ifaces, heap, balVars, sessions, conv>>

\* main(): a --bind=a argument for which the listener cannot be made: the
\* program aborts.
BindFails(a, o) ==
    /\ phase = "startup"
    /\ Len(bind_args) < MaxBinds
    /\ o # "ok"
    /\ listeners' = Append(listeners, server_create(a, o))
    /\ bind_args' = Append(bind_args, a)
    /\ phase' = "aborted"
    /\ UNCHANGED <<ifaces, heap, balVars, sessions, bound, conv>>

\* main(): -h or --help: usage is printed and the program exits.
Help ==
    /\ phase = "startup"
    /\ phase' = "exited"
    /\ UNCHANGED <<ifaces, heap, balVars, sessions, mainVars, conv>>

LoopMayStartAlways(iface_count) == TRUE

\* if (! iface_count) abort_with_error("No addresses to dispatch.")
LoopMayStart(iface_count) == iface_count # 0

\* main(): the arguments are exhausted; without an interface the program
\* aborts, otherwise the default listeners are made unless a --bind was
\* read, and the event loop starts.
StartLoop ==
    /\ phase = "startup"
    /\ phase' = IF LoopMayStart(Len(heap)) THEN "running" ELSE "aborted"
    /\ listeners' =
          IF LoopMayStart(Len(heap)) /\ bound = 0
          THEN listeners \o [k \in 1 .. Len(DefaultBinds) |->
                                server_create(DefaultBinds[k], "ok")]
          ELSE listeners
    /\ UNCHANGED <<ifaces, heap, balVars, sessions, bound, bind_args, conv>>

\* main(): the k-th default listener cannot be made: the program aborts.
StartLoopBindFails(k, o) ==
    /\ phase = "startup"
    /\ LoopMayStart(Len(heap))
    /\ bound = 0
    /\ o # "ok"
    /\ listeners' = listeners
                     \o [j \in 1 .. k - 1 |-> server_create(DefaultBinds[j], "ok")]
                     \o <<server_create(DefaultBinds[k], o)>>
    /\ phase' = "aborted"
    /\ UNCHANGED <<ifaces, heap, balVars, sessions, bound, bind_args, conv>>

MainNext ==
    \/ \E f \in Types, m \in Metrics : AddInterface(f, m)
    \/ AddInvalid
    \/ \E a \in BindArgs : Bind(a)
    \/ \E a \in BindArgs, o \in ListenerOutcomes : BindFails(a, o)
    \/ Help
    \/ StartLoop
    \/ \E k \in 1 .. Len(DefaultBinds), o \in ListenerOutcomes :
          StartLoopBindFails(k, o)

MainSpec == Init /\ [][MainNext]_vars

\* ------------------------------------------------- the balancer on its own

HeldTotal == LET RECURSIVE Sum(_)
                 Sum(k) == IF k = 0 THEN 0 ELSE held[k] + Sum(k - 1)
             IN Sum(Len(held))

\* A caller asks for an interface for the families in the mask `at`.
BalGet(at) ==
    /\ phase = "running"
    /\ op' = "get"
    /\ addr_type' = at
    /\ selected' = interface_manager_get(ifaces, heap, at)
    /\ UNCHANGED <<phase, ifaces, heap, held, any_closed, sessions, mainVars, conv>>

\* ... and opens a socket on the interface it was given.
BalOpen ==
    /\ phase = "running"
    /\ op = "get"
    /\ selected # NULL
    /\ HeldTotal < MaxHeld
    /\ op' = "open"
    /\ heap' = interface_open(heap, selected)
    /\ held' = [held EXCEPT ![selected] = @ + 1]
    /\ UNCHANGED <<phase, ifaces, addr_type, selected, any_closed, sessions, mainVars, conv>>

\* socket() or bind() fails inside interface_open: abort_with_liberror.
BalOpenAbort ==
    /\ phase = "running"
    /\ op = "get"
    /\ selected # NULL
    /\ phase' = "aborted"
    /\ UNCHANGED <<ifaces, heap, balVars, sessions, mainVars, conv>>

\* The caller closes one of the sockets it holds.
BalClose(i) ==
    /\ phase = "running"
    /\ held[i] > 0
    /\ op' = "close"
    /\ heap' = interface_close(heap, i)
    /\ held' = [held EXCEPT ![i] = @ - 1]
    /\ selected' = NULL
    /\ addr_type' = 0
    /\ any_closed' = TRUE
    /\ UNCHANGED <<phase, ifaces, sessions, mainVars, conv>>

BalNext ==
    \/ \E f \in Types, m \in Metrics : AddInterface(f, m)
    \/ AddInvalid
    \/ StartLoop
    \/ \E at \in AddrTypes : BalGet(at)
    \/ BalOpen
    \/ BalOpenAbort
    \/ \E i \in 1 .. Len(heap) : BalClose(i)

BalSpec == Init /\ [][BalNext]_vars

\* ------------------------------------------------- the sessions' handlers

\* The SOCKS5 reply code for the error kind of a failed connect.
ReplyCode(kind) ==
    IF kind = "socket_error_connection_refused" THEN 5
    ELSE IF kind = "socket_error_network_unreachable" THEN 3
    ELSE IF kind = "socket_error_host_unreachable" THEN 4
    ELSE IF kind = "socket_error_timeout" THEN 6
    ELSE 1

\* The failure reply with the given code: VER 5, REP, RSV 0, ATYP 1,
\* BND.ADDR 0.0.0.0, BND.PORT 0.
FailureReply(code) == <<5, code, 0, 1, 0, 0, 0, 0, 0, 0>>

CommandReplyGeneral == FailureReply(1)

\* The reply to a request whose CMD is not CONNECT: command not supported.
CommandReply == FailureReply(7)

\* The two directions of a relay: client to target and target to client.
Dirs == {"up", "down"}

\* One direction of a relay: the bytes buffered, whether its source has
\* reported EOF, whether its sink was shut down for writing; `read` and
\* `written` are history: the bytes taken from the source and given to
\* the sink.
NoBytes == [buf |-> 0, eof |-> FALSE, shut |-> FALSE, read |-> 0, written |-> 0]

MayShutdownEarly(p) == p.eof

\* Whether the sink of a direction is to be shut down for writing.
MayShutdown(p) == p.eof /\ p.buf = 0

\* The CMD bytes a request may carry besides CONNECT (1): BIND, UDP
\* ASSOCIATE and a byte SOCKS5 does not define.
OtherCommands == {2, 3, 9}

SessionIds == 1 .. NumSessions

Live(r) == r.state \notin {"Unborn", "Done", "Failed"}

UseCounts(h) == [i \in 1 .. Len(h) |-> h[i].use_count]

\* close(hd.fd)
socket_handle_close(fd) == sys_close(fd)

\* What the caller of interface_open receives: the function is declared int
\* and ends in `return;`, so the value is indeterminate: the descriptor by
\* chance ("fd"), or something that is no socket of the session ("junk").
InterfaceOpenReturn == {"fd", "junk"}

\* Another session opened (d = 1) or closed (d = -1) a socket on interface i.
Note(r, i, d) == IF Live(r) THEN [r EXCEPT !.others[i] = @ + d] ELSE r

DroppedAwaitsRequest(r, st) == [r EXCEPT !.state = "RequestRead"]

\* The session's record once it is dropped in state st: the interface
\* released if held, both sockets closed through the handles the session
\* has, no registration left.
Dropped(r, st) ==
    [r EXCEPT !.state = st,
              !.iface = NULL,
              !.in_sock = socket_handle_close(@),
              !.out_fd = IF r.out_hd = "fd" THEN socket_handle_close(@) ELSE @,
              !.regs = {},
              !.releases = IF r.iface # NULL THEN @ + 1 ELSE @,
              !.start_use = <<>>,
              !.others = <<>>,
              !.cmd = 0,
              !.mask = 0,
              !.err = "none",
              !.reply = <<>>,
              !.relay = <<>>]

\* Session s ends in state st (Done or Failed).
Drop(s, st) ==
    LET r == sessions[s] IN
    /\ heap' = IF r.iface # NULL THEN interface_close(heap, r.iface) ELSE heap
    /\ sessions' = [t \in SessionIds |->
                       IF t = s THEN Dropped(r, st)
                       ELSE IF r.iface # NULL THEN Note(sessions[t], r.iface, -1)
                       ELSE sessions[t]]
    /\ UNCHANGED <<phase, ifaces, balVars, mainVars, conv>>

\* Session s moves on to state st with registrations rg; nothing else moves.
Advance(s, st, rg) ==
    /\ sessions' = [sessions EXCEPT ![s].state = st, ![s].regs = rg]
    /\ UNCHANGED <<phase, ifaces, heap, balVars, mainVars, conv>>

\* A listener is readable and socket_handle_accept returns a connection.
Accept(s) ==
    /\ phase = "running"
    /\ sessions[s].state = "Unborn"
    /\ s > 1 => sessions[s - 1].state # "Unborn"
    /\ sessions' = [sessions EXCEPT ![s] =
                       [NoSession EXCEPT !.state = "GreetingRead",
                                         !.in_sock = "open",
                                         !.regs = {"in"},
                                         !.start_use = UseCounts(heap),
                                         !.others = [i \in 1 .. Len(heap) |-> 0]]]
    /\ UNCHANGED <<phase, ifaces, heap, balVars, mainVars, conv>>

\* GreetingRead: a complete greeting with VER = 5.
GreetingOk(s) ==
    /\ phase = "running"
    /\ sessions[s].state = "GreetingRead"
    /\ Advance(s, "GreetingWrite", {"in"})

\* GreetingRead: VER # 5.
GreetingBad(s) ==
    /\ phase = "running"
    /\ sessions[s].state = "GreetingRead"
    /\ Drop(s, "Failed")

\* GreetingWrite: 05 00 written.
GreetingWritten(s) ==
    /\ phase = "running"
    /\ sessions[s].state = "GreetingWrite"
    /\ Advance(s, "RequestRead", {"in"})

\* The client resets, or a read or write on the inbound socket fails, before
\* the relay has started: the session is closed silently.
ClientError(s) ==
    /\ phase = "running"
    /\ Live(sessions[s])
    /\ sessions[s].state # "Relaying"
    /\ Drop(s, "Failed")

\* The error kind on which a session is only parked.
Parks(kind) == kind = "socket_error_again"

\* A read or a write for session s fails with errno e: on the kind Again
\* the session waits for the next readiness event, on any other kind it is
\* dropped.
IoFails(s, e) ==
    LET r == sessions[s] IN
    /\ phase = "running"
    /\ Live(r)
    /\ r.transients < MaxAgain
    /\ IF Parks(errno_to_error_type(e))
       THEN /\ sessions' = [sessions EXCEPT ![s].transients = @ + 1]
            /\ heap' = heap
       ELSE /\ heap' = IF r.iface # NULL THEN interface_close(heap, r.iface)
                       ELSE heap
            /\ sessions' = [t \in SessionIds |->
                   IF t = s
                   THEN [Dropped(r, "Failed") EXCEPT !.transients = @ + 1]
                   ELSE IF r.iface # NULL THEN Note(sessions[t], r.iface, -1)
                   ELSE sessions[t]]
    /\ UNCHANGED <<phase, ifaces, balVars, mainVars, conv>>

\* accept() on a listener fails with errno e before the connection of
\* slot s exists: on Again the accept loop ends, on any other kind the
\* error is logged; the listener stays and no session is made.
AcceptFails(s, e) ==
    /\ phase = "running"
    /\ sessions[s].state = "Unborn"
    /\ s > 1 => sessions[s - 1].state # "Unborn"
    /\ sessions[s].transients < MaxAgain
    /\ sessions' = [sessions EXCEPT ![s].transients = @ + 1]
    /\ UNCHANGED <<phase, ifaces, heap, balVars, mainVars, conv>>

\* RequestRead: CONNECT; an interface is found and interface_open
\* succeeds, but connect() fails with errno e of kind Again: the attempt
\* is given up, the interface released, and the session waits in
\* RequestRead for the next readiness event.
ConnectAgain(s, family, e) ==
    LET i == interface_manager_get(ifaces, heap, 2 ^ family) IN
    /\ phase = "running"
    /\ sessions[s].state = "RequestRead"
    /\ i # NULL
    /\ sessions[s].transients < MaxAgain
    /\ Parks(errno_to_error_type(e))
    /\ heap' = interface_close(interface_open(heap, i), i)
    /\ sessions' = [sessions EXCEPT ![s].transients = @ + 1]
    /\ UNCHANGED <<phase, ifaces, balVars, mainVars, conv>>

\* Session s leaves RequestRead for ReplyWriteThenClose without having
\* asked for a socket: the request and the reply prepared are kept.
Refuse(s, cmd, mask, reply) ==
    /\ sessions' = [sessions EXCEPT ![s].state = "ReplyWriteThenClose",
                                    ![s].regs = {"in"},
                                    ![s].cmd = cmd,
                                    ![s].mask = mask,
                                    ![s].reply = reply]
    /\ UNCHANGED <<phase, ifaces, heap, balVars, mainVars, conv>>

\* RequestRead: CMD # 1 (reply 07): no interface is asked for.
RequestBadCommand(s, cmd) ==
    /\ phase = "running"
    /\ sessions[s].state = "RequestRead"
    /\ cmd # 1
    /\ Refuse(s, cmd, 0, CommandReply)

\* RequestRead: CONNECT with ATYP 3 and a name that does not resolve
\* (reply 04): no interface is asked for.
RequestResolveFails(s) ==
    /\ phase = "running"
    /\ sessions[s].state = "RequestRead"
    /\ Refuse(s, 1, 0, FailureReply(4))

\* RequestRead: CONNECT to a target of the given family, but
\* interface_manager_get returns NULL (reply 03).
RequestNoInterface(s, family) ==
    /\ phase = "running"
    /\ sessions[s].state = "RequestRead"
    /\ interface_manager_get(ifaces, heap, 2 ^ family) = NULL
    /\ Refuse(s, 1, 2 ^ family, FailureReply(3))

\* RequestRead: CONNECT; an interface is found and interface_open succeeds;
\* connect() is in progress.
RequestConnect(s, family, hd) ==
    LET i == interface_manager_get(ifaces, heap, 2 ^ family) IN
    /\ phase = "running"
    /\ sessions[s].state = "RequestRead"
    /\ i # NULL
    /\ hd = "fd"
    /\ heap' = interface_open(heap, i)
    /\ sessions' = [t \in SessionIds |->
                       IF t = s
                       THEN [sessions[s] EXCEPT !.state = "Connecting",
                                                !.cmd = 1,
                                                !.mask = 2 ^ family,
                                                !.iface = i,
                                                !.acquired = i,
                                                !.out_fd = "open",
                                                !.out_hd = hd,
                                                !.regs = {"in", "out"}]
                       ELSE Note(sessions[t], i, 1)]
    /\ UNCHANGED <<phase, ifaces, balVars, mainVars, conv>>

\* RequestRead: CONNECT; an interface is found and interface_open succeeds,
\* but connect() fails at once (always so on a handle that is no socket):
\* the interface is released again and a failure reply prepared.
RequestConnectFails(s, family, hd, e) ==
    LET i == interface_manager_get(ifaces, heap, 2 ^ family) IN
    /\ phase = "running"
    /\ sessions[s].state = "RequestRead"
    /\ i # NULL
    /\ e \in ConnectErrnos(hd)
    /\ heap' = interface_close(interface_open(heap, i), i)
    /\ sessions' = [sessions EXCEPT ![s].state = "ReplyWriteThenClose",
                                    ![s].cmd = 1,
                                    ![s].mask = 2 ^ family,
                                    ![s].err = e,
                                    ![s].reply =
                                        FailureReply(ReplyCode(
                                            errno_to_error_type(e))),
                                    ![s].acquired = i,
                                    ![s].releases = @ + 1,
                                    ![s].out_fd = "open",
                                    ![s].out_hd = hd,
                                    ![s].regs = {"in"}]
    /\ UNCHANGED <<phase, ifaces, balVars, mainVars, conv>>

\* RequestRead: CONNECT; socket() or bind() fails inside interface_open:
\* abort_with_liberror ends the program.
RequestOpenAbort(s, family) ==
    /\ phase = "running"
    /\ sessions[s].state = "RequestRead"
    /\ interface_manager_get(ifaces, heap, 2 ^ family) # NULL
    /\ phase' = "aborted"
    /\ UNCHANGED <<ifaces, heap, balVars, sessions, mainVars, conv>>

\* Connecting: the outbound socket is writable and its status is clean;
\* the success reply is written.
ConnectDone(s) ==
    /\ phase = "running"
    /\ sessions[s].state = "Connecting"
    /\ sessions' = [sessions EXCEPT ![s].state = "Relaying",
                                    ![s].regs = {"in", "out"},
                                    ![s].relay = [d \in Dirs |-> NoBytes]]
    /\ UNCHANGED <<phase, ifaces, heap, balVars, mainVars, conv>>

\* Connecting: socket_handle_get_status reports an error: the interface is
\* released and a failure reply prepared.
ConnectFailed(s, e) ==
    LET r == sessions[s] IN
    /\ phase = "running"
    /\ r.state = "Connecting"
    /\ e \in StatusErrnos
    /\ heap' = interface_close(heap, r.iface)
    /\ sessions' = [t \in SessionIds |->
                       IF t = s
                       THEN [r EXCEPT !.state = "ReplyWriteThenClose",
                                      !.err = e,
                                      !.reply =
                                          FailureReply(ReplyCode(
                                              errno_to_error_type(e))),
                                      !.iface = NULL,
                                      !.releases = @ + 1,
                                      !.regs = {"in"}]
                       ELSE Note(sessions[t], r.iface, -1)]
    /\ UNCHANGED <<phase, ifaces, balVars, mainVars, conv>>

\* Connecting: getsockopt() itself fails in socket_handle_get_status:
\* abort_with_liberror ends the program.
ConnectStatusAbort(s) ==
    /\ phase = "running"
    /\ sessions[s].state = "Connecting"
    /\ phase' = "aborted"
    /\ UNCHANGED <<ifaces, heap, balVars, sessions, mainVars, conv>>

\* Relaying, taken as one step from its start to its end: both directions
\* have carried their bytes and are closed.
RelayEnd(s) ==
    /\ phase = "running"
    /\ sessions[s].state = "Relaying"
    /\ Drop(s, "Done")

\* Pipe p of session s becomes q; nothing else moves.
Pipe(s, d, q) ==
    /\ sessions' = [sessions EXCEPT ![s].relay[d] = q]
    /\ UNCHANGED <<phase, ifaces, heap, balVars, mainVars, conv>>

\* Relaying: the source of direction d is readable and a byte is read into
\* the buffer.
RelayRead(s, d) ==
    LET p == sessions[s].relay[d] IN
    /\ phase = "running"
    /\ sessions[s].state = "Relaying"
    /\ ~p.eof
    /\ p.buf < BufSize
    /\ p.read < MaxBytes
    /\ Pipe(s, d, [p EXCEPT !.buf = @ + 1, !.read = @ + 1])

\* Relaying: the sink of direction d is writable and a byte of the buffer
\* is written; the sink is shut down for writing if that was the last byte
\* after an EOF.
RelayWrite(s, d) ==
    LET p == sessions[s].relay[d]
        q == [p EXCEPT !.buf = @ - 1, !.written = @ + 1] IN
    /\ phase = "running"
    /\ sessions[s].state = "Relaying"
    /\ p.buf > 0
    /\ Pipe(s, d, [q EXCEPT !.shut = MayShutdown(q)])

\* Relaying: the source of direction d reports EOF; the sink is shut down
\* for writing at once if nothing is buffered.
RelayEof(s, d) ==
    LET p == sessions[s].relay[d]
        q == [p EXCEPT !.eof = TRUE] IN
    /\ phase = "running"
    /\ sessions[s].state = "Relaying"
    /\ ~p.eof
    /\ Pipe(s, d, [q EXCEPT !.shut = MayShutdown(q)])

\* Relaying: both directions are shut down.
RelayClosed(s) ==
    /\ phase = "running"
    /\ sessions[s].state = "Relaying"
    /\ \A d \in Dirs : sessions[s].relay[d].shut
    /\ Drop(s, "Done")

\* Relaying: a read or a write fails with an error that is not temporary.
RelayError(s) ==
    /\ phase = "running"
    /\ sessions[s].state = "Relaying"
    /\ Drop(s, "Failed")

\* ReplyWriteThenClose: the failure reply is written.
ReplyWritten(s) ==
    /\ phase = "running"
    /\ sessions[s].state = "ReplyWriteThenClose"
    /\ Drop(s, "Done")

\* The inputs under which several sessions are followed together: one
\* command that is not CONNECT, and one errno for each kind of handle.
NextCommands == {2}

NextErrnos == {"ECONNREFUSED", "EBADF"}

\* No handler of a session reads the metric, so under Next every interface
\* is added with the same weight.
Next ==
    \/ \E f \in Types : AddInterface(f, 1)
    \/ AddInvalid
    \/ StartLoop
    \/ \E s \in SessionIds : Accept(s)
    \/ \E s \in SessionIds : GreetingOk(s)
    \/ \E s \in SessionIds : GreetingBad(s)
    \/ \E s \in SessionIds : GreetingWritten(s)
    \/ \E s \in SessionIds : ClientError(s)
    \/ \E s \in SessionIds, c \in NextCommands : RequestBadCommand(s, c)
    \/ \E s \in SessionIds : RequestResolveFails(s)
    \/ \E s \in SessionIds, f \in Types : RequestNoInterface(s, f)
    \/ \E s \in SessionIds, f \in Types, hd \in InterfaceOpenReturn :
          RequestConnect(s, f, hd)
    \/ \E s \in SessionIds, f \in Types, hd \in InterfaceOpenReturn,
          e \in NextErrnos : RequestConnectFails(s, f, hd, e)
    \/ \E s \in SessionIds, f \in Types : RequestOpenAbort(s, f)
    \/ \E s \in SessionIds : ConnectDone(s)
    \/ \E s \in SessionIds, e \in NextErrnos : ConnectFailed(s, e)
    \/ \E s \in SessionIds : ConnectStatusAbort(s)
    \/ \E s \in SessionIds : RelayEnd(s)
    \/ \E s \in SessionIds : ReplyWritten(s)

Spec == Init /\ [][Next]_vars

\* The address conversions on their own.
AddrNext ==
    \/ \E h \in Hosts4 \cup Hosts6 : HostToStr(h)
    \/ HostFromStr
    \/ \E h \in SocketHosts, p \in Ports :
          SocketToStr(SocketAddress(h, htons(p)))
    \/ SocketFromStr
    \/ \E h \in SocketHosts, n \in PortNumbers : SocketParse(h, n)
    \/ \E str \in BadHostTexts, prior \in PriorHosts : HostParseBad(str, prior)
    \/ \E str \in BadSocketTexts, prior \in PriorSockets :
          SocketParseBad(str, prior)

AddrSpec == Init /\ [][AddrNext]_vars

\* One session followed alone, under every input its handlers tell apart.
SessionNext ==
    \/ \E f \in Types : AddInterface(f, 1)
    \/ StartLoop
    \/ Accept(1)
    \/ \E e \in TemporaryErrnos : AcceptFails(1, e)
    \/ \E e \in TemporaryErrnos : IoFails(1, e)
    \/ \E f \in Types, e \in TemporaryErrnos : ConnectAgain(1, f, e)
    \/ GreetingOk(1)
    \/ GreetingBad(1)
    \/ GreetingWritten(1)
    \/ ClientError(1)
    \/ \E c \in OtherCommands : RequestBadCommand(1, c)
    \/ RequestResolveFails(1)
    \/ \E f \in Types : RequestNoInterface(1, f)
    \/ \E f \in Types, hd \in InterfaceOpenReturn : RequestConnect(1, f, hd)
    \/ \E f \in Types, hd \in InterfaceOpenReturn, e \in Errnos :
          RequestConnectFails(1, f, hd, e)
    \/ \E f \in Types : RequestOpenAbort(1, f)
    \/ ConnectDone(1)
    \/ \E e \in Errnos : ConnectFailed(1, e)
    \/ ConnectStatusAbort(1)
    \/ \E d \in Dirs : RelayRead(1, d)
    \/ \E d \in Dirs : RelayWrite(1, d)
    \/ \E d \in Dirs : RelayEof(1, d)
    \/ RelayClosed(1)
    \/ RelayError(1)
    \/ ReplyWritten(1)

SessionSpec == Init /\ [][SessionNext]_vars

\* ---------------------------------------------- properties of the balancer

\* The family bits of a mask, stated without the code's shift:
\* bit 0 = INET, bit 1 = INET6.
InMask(at, family) ==
    IF family = INTERFACE_OFF_INET THEN at \in {1, 3} ELSE at \in {2, 3}

Eligible(at) == {i \in 1 .. Len(heap) : InMask(at, heap[i].family)}

GotInterface == op = "get" /\ selected # NULL

\* load(i) <= load(j), with load = use_count / metric, cross-multiplied
RatioLeq(i, j) ==
    heap[i].use_count * heap[j].metric <= heap[j].use_count * heap[i].metric

\* C4: the interface interface_manager_get returns minimizes
\* use_count / metric among the eligible interfaces.
C4_MinLoadRatio ==
    GotInterface => \A j \in Eligible(addr_type) : RatioLeq(selected, j)

Tied(i, j) ==
    /\ heap[i].use_count = heap[j].use_count
    /\ RatioLeq(i, j) /\ RatioLeq(j, i)

C6_FamilyMask ==
    op = "get" =>
        /\ selected # NULL => InMask(addr_type, heap[selected].family)
        /\ selected = NULL <=> Eligible(addr_type) = {}

C6_Witness ==
    /\ GotInterface
    /\ \E j \in 1 .. Len(heap) :
          /\ j \notin Eligible(addr_type)
          /\ heap[j].use_count < heap[selected].use_count

\* Two interfaces of one family, sockets only opened so far.
TwoOfOneFamily ==
    /\ Len(heap) = 2
    /\ heap[1].family = heap[2].family
    /\ ~any_closed

\* C8: with two interfaces of one family and equal metrics, sockets opened
\* one after another and held leave the two use_counts within 1 of each
\* other (10 of them give 5 and 5); with every socket closed again both
\* are 0.
C8_Spread ==
    (Len(heap) = 2 /\ heap[1].family = heap[2].family
                   /\ heap[1].metric = heap[2].metric) =>
        /\ ~any_closed =>
              /\ heap[1].use_count - heap[2].use_count \in {-1, 0, 1}
              /\ heap[1].use_count + heap[2].use_count = HeldTotal
              /\ HeldTotal = 10 =>
                    heap[1].use_count = 5 /\ heap[2].use_count = 5
        /\ HeldTotal = 0 => heap[1].use_count = 0 /\ heap[2].use_count = 0

C8_Witness ==
    /\ TwoOfOneFamily
    /\ heap[1].metric = heap[2].metric
    /\ HeldTotal = 10
    /\ op = "open"

\* C9: with two interfaces of one family and metrics 1 and 3, after 4k
\* sockets opened and held the use_counts are k and 3k (8 give 2 and 6).
C9_Weighted ==
    (TwoOfOneFamily /\ heap[1].metric = 1 /\ heap[2].metric = 3
                    /\ HeldTotal % 4 = 0) =>
        /\ 4 * heap[1].use_count = HeldTotal
        /\ 4 * heap[2].use_count = 3 * HeldTotal

\* ---------------------------------------------- properties of the sessions

Holding == {"Connecting", "Relaying"}

Holders(i) ==
    {s \in SessionIds : sessions[s].state \in Holding /\ sessions[s].acquired = i}

UseTotal == LET RECURSIVE Sum(_)
                Sum(k) == IF k = 0 THEN 0 ELSE heap[k].use_count + Sum(k - 1)
            IN Sum(Len(heap))

Ended(r) == r.state \in {"Done", "Failed"}

\* C1: every interface's use_count is the number of sessions in Connecting
\* or Relaying that acquired it, so the use_counts add up to the number of
\* sessions in Connecting or Relaying.
C1_UseCountIsHolders ==
    /\ \A i \in 1 .. Len(heap) : heap[i].use_count = Cardinality(Holders(i))
    /\ UseTotal = Cardinality({s \in SessionIds : sessions[s].state \in Holding})

C1_Witness ==
    \E s, t \in SessionIds :
        /\ sessions[s].state = "Relaying"
        /\ sessions[t].state = "Done"
        /\ sessions[t].acquired = sessions[s].acquired
        /\ sessions[t].releases = 1

\* C2: no use_count is ever negative, and a session calls interface_close
\* at most once, and only after it acquired an interface.
C2_UseCountNonNegative ==
    /\ \A i \in 1 .. Len(heap) : heap[i].use_count >= 0
    /\ \A s \in SessionIds :
          sessions[s].releases <= (IF sessions[s].acquired # NULL THEN 1 ELSE 0)

C2_Witness ==
    \E s \in SessionIds :
        /\ sessions[s].state = "Done"
        /\ sessions[s].acquired # NULL
        /\ sessions[s].releases = 1
        /\ heap[sessions[s].acquired].use_count = 0

\* C3: once a session is dropped, its inbound socket and the socket opened
\* for it on the interface are closed, its interface has been released
\* exactly once if it acquired one, and it has no registration left.
C3_CleanExit ==
    \A s \in SessionIds :
        Ended(sessions[s]) =>
            /\ sessions[s].in_sock # "open"
            /\ sessions[s].out_fd # "open"
            /\ sessions[s].regs = {}
            /\ sessions[s].iface = NULL
            /\ sessions[s].releases =
                  (IF sessions[s].acquired # NULL THEN 1 ELSE 0)

\* Session s goes from RequestRead to Connecting in this step.
Acquires(s) ==
    sessions[s].state = "RequestRead" /\ sessions'[s].state = "Connecting"

\* C7: the step in which a session acquires an interface raises that
\* interface's use_count by exactly one and changes no other use_count,
\* nor the interfaces and their order.
C7_AcquireFrame ==
    [][\A s \in SessionIds :
          Acquires(s) =>
              /\ sessions'[s].iface \in 1 .. Len(heap)
              /\ heap' = [heap EXCEPT ![sessions'[s].iface].use_count = @ + 1]
              /\ ifaces' = ifaces]_vars

C7_Witness ==
    \E s, t \in SessionIds :
        /\ sessions[s].state = "Connecting"
        /\ sessions[t].state = "Connecting"
        /\ sessions[s].iface # sessions[t].iface
        /\ heap[sessions[s].iface].family = heap[sessions[t].iface].family
        /\ heap[sessions[s].iface].use_count = 1
        /\ heap[sessions[t].iface].use_count = 1

\* Session s is dropped in this step.
Terminates(s) == ~Ended(sessions[s]) /\ Ended(sessions'[s])

\* C10 as stated: when a session terminates, the interface it acquired has
\* the use_count it had when the session was accepted.
C10_UseCountRestored ==
    [][\A s \in SessionIds :
          (Terminates(s) /\ sessions[s].acquired # NULL) =>
              heap'[sessions[s].acquired].use_count
                  = sessions[s].start_use[sessions[s].acquired]]_vars

\* C10 amended: when a session terminates, the interface it acquired has
\* the use_count it had when the session was accepted, plus the opens and
\* minus the closes other sessions made on it in the meantime.
C10_OwnEffectUndone ==
    [][\A s \in SessionIds :
          (Terminates(s) /\ sessions[s].acquired # NULL) =>
              heap'[sessions[s].acquired].use_count
                  = sessions[s].start_use[sessions[s].acquired]
                    + sessions[s].others[sessions[s].acquired]]_vars

C10_Witness ==
    \E s, t \in SessionIds :
        /\ sessions[s].state = "Done"
        /\ sessions[s].acquired # NULL
        /\ sessions[t].state = "Relaying"
        /\ sessions[t].acquired = sessions[s].acquired
        /\ sessions[t].start_use[sessions[t].acquired] = 1
        /\ sessions[t].others[sessions[t].acquired] = -1

\* Session s is the same session, in the same state and holding the same
\* interface, after the step.
Untouched(s) ==
    /\ sessions'[s].state = sessions[s].state
    /\ sessions'[s].iface = sessions[s].iface
    /\ sessions'[s].in_sock = sessions[s].in_sock
    /\ sessions'[s].out_fd = sessions[s].out_fd
    /\ sessions'[s].regs = sessions[s].regs

\* C12: once the event loop runs, no step ends the process, and a step
\* that moves or ends one session leaves every other session in its state,
\* with its interface held, its sockets and its registrations.
C12_SessionLocal ==
    [][phase = "running" =>
          /\ phase' = "running"
          /\ \A s \in SessionIds :
                ~Untouched(s) => \A t \in SessionIds \ {s} : Untouched(t)]_vars

\* ----------------------------------------------- properties of the replies

\* Session s leaves RequestRead in this step.
RequestHandled(s) ==
    sessions[s].state = "RequestRead" /\ sessions'[s].state # "RequestRead"

\* Session s is dropped in this step.
Closes(s) ==
    /\ Live(sessions[s])
    /\ Ended(sessions'[s])
    /\ sessions'[s].in_sock = "closed"
    /\ sessions'[s].regs = {}

\* C13: a request whose CMD is not 1 takes the session to
\* ReplyWriteThenClose with the reply 05 07 00 01 00 00 00 00 00 00, no
\* use_count changed, no interface held and no outbound socket opened; and
\* from there the session's only step is to Done or Failed, closed, again
\* with no use_count changed.
C13_CommandNotSupported ==
    [][\A s \in SessionIds :
          /\ (RequestHandled(s) /\ sessions'[s].cmd \notin {0, 1}) =>
                /\ sessions'[s].state = "ReplyWriteThenClose"
                /\ sessions'[s].reply = <<5, 7, 0, 1, 0, 0, 0, 0, 0, 0>>
                /\ sessions'[s].iface = NULL
                /\ sessions'[s].acquired = NULL
                /\ sessions'[s].out_fd = "none"
                /\ heap' = heap
          /\ ( /\ sessions[s].state = "ReplyWriteThenClose"
               /\ sessions[s].cmd \notin {0, 1}
               /\ ~Untouched(s) ) =>
                /\ Closes(s)
                /\ sessions'[s].out_fd = "none"
                /\ sessions'[s].acquired = NULL
                /\ heap' = heap]_vars

C13_Witness ==
    \E s \in SessionIds :
        /\ sessions[s].state = "ReplyWriteThenClose"
        /\ sessions[s].cmd = 3
        /\ sessions[s].reply = <<5, 7, 0, 1, 0, 0, 0, 0, 0, 0>>
        /\ Len(heap) > 0

\* C14: when a CONNECT is read and no interface of the target's family is
\* configured, the session goes to ReplyWriteThenClose with reply code 03,
\* never to Connecting, and no use_count changes; from there its only step
\* is to be closed.
NoneOfFamily(mask) ==
    \A i \in 1 .. Len(heap) : 2 ^ heap[i].family # mask

C14_NoInterface ==
    [][\A s \in SessionIds :
          /\ ( /\ RequestHandled(s)
               /\ sessions'[s].cmd = 1
               /\ sessions'[s].mask # 0
               /\ NoneOfFamily(sessions'[s].mask) ) =>
                /\ sessions'[s].state = "ReplyWriteThenClose"
                /\ sessions'[s].reply = <<5, 3, 0, 1, 0, 0, 0, 0, 0, 0>>
                /\ sessions'[s].iface = NULL
                /\ sessions'[s].acquired = NULL
                /\ heap' = heap
          /\ ( /\ sessions[s].state = "ReplyWriteThenClose"
               /\ sessions[s].mask # 0
               /\ NoneOfFamily(sessions[s].mask)
               /\ ~Untouched(s) ) =>
                /\ Closes(s)
                /\ heap' = heap]_vars

C14_Witness ==
    \E s \in SessionIds :
        /\ sessions[s].state = "ReplyWriteThenClose"
        /\ sessions[s].mask = 2 ^ INTERFACE_OFF_INET
        /\ Len(heap) > 0
        /\ \A i \in 1 .. Len(heap) : heap[i].family = INTERFACE_OFF_INET6
        /\ sessions[s].reply[2] = 3

\* The reply code the protocol asks for after a connect failing with e.
ExpectedReply(e) ==
    CASE e = "ECONNREFUSED" -> 5
      [] e = "ENETUNREACH" -> 3
      [] e = "EHOSTUNREACH" -> 4
      [] e = "ETIMEDOUT" -> 6
      [] OTHER -> 1

\* The connect of session s fails in this step, at once or in Connecting.
ConnectFails(s) == sessions[s].err = "none" /\ sessions'[s].err # "none"

\* C15: when the connect of a session fails, the session holds no
\* interface afterwards, the use_count of the interface it acquired is back
\* to what it was before the acquire, and the session is in
\* ReplyWriteThenClose with the reply code of the error: 05 for a refused
\* connection, 03 for an unreachable network, 04 for an unreachable host,
\* 06 for a timeout, 01 otherwise; from there its only step is to be
\* closed, so it never relays.
C15_ConnectFailureReply ==
    [][\A s \in SessionIds :
          /\ ConnectFails(s) =>
                /\ sessions[s].state \in {"RequestRead", "Connecting"}
                /\ sessions'[s].state = "ReplyWriteThenClose"
                /\ sessions'[s].reply =
                      <<5, ExpectedReply(sessions'[s].err), 0, 1, 0, 0, 0, 0, 0, 0>>
                /\ sessions'[s].iface = NULL
                /\ sessions'[s].releases = 1
                /\ heap'[sessions'[s].acquired].use_count =
                      heap[sessions'[s].acquired].use_count
                      - (IF sessions[s].iface # NULL THEN 1 ELSE 0)
          /\ ( /\ sessions[s].state = "ReplyWriteThenClose"
               /\ sessions[s].err # "none"
               /\ ~Untouched(s) ) =>
                /\ Closes(s)
                /\ sessions'[s].releases = 1
                /\ heap' = heap]_vars

C15_Witness ==
    \E s \in SessionIds :
        /\ sessions[s].state = "ReplyWriteThenClose"
        /\ sessions[s].err = "ETIMEDOUT"
        /\ sessions[s].reply[2] = 6
        /\ sessions[s].iface = NULL
        /\ sessions[s].acquired # NULL

\* --------------------------------------- properties of the state machine

\* The steps of the session's state machine.
Edges ==
    {<<"Unborn", "GreetingRead">>,
     <<"GreetingRead", "GreetingWrite">>,
     <<"GreetingWrite", "RequestRead">>,
     <<"RequestRead", "Connecting">>,
     <<"Connecting", "Relaying">>,
     <<"Relaying", "Done">>,
     <<"RequestRead", "ReplyWriteThenClose">>,
     <<"Connecting", "ReplyWriteThenClose">>,
     <<"ReplyWriteThenClose", "Done">>}
    \cup {<<st, "Failed">> :
             st \in {"GreetingRead", "GreetingWrite", "RequestRead",
                     "Connecting", "Relaying", "ReplyWriteThenClose"}}

\* C19: every change of a session's state is a step of the machine
\* GreetingRead, GreetingWrite, RequestRead, Connecting, Relaying, Done,
\* with ReplyWriteThenClose (from RequestRead or Connecting, on to Done) and
\* Failed as the side exits; nothing leaves Done or Failed.
C19_ForwardOnly ==
    [][\A s \in SessionIds :
          sessions'[s].state # sessions[s].state =>
              <<sessions[s].state, sessions'[s].state>> \in Edges]_vars

C19_Witness ==
    \E s \in SessionIds :
        /\ sessions[s].state = "Done"
        /\ sessions[s].acquired # NULL
        /\ sessions[s].out_hd = "fd"
        /\ sessions[s].out_fd = "closed"

\* C20: in Relaying, the sink of a direction is shut down for writing only
\* after its source reported EOF and every byte read from the source has
\* been written to the sink; every byte read is written or still buffered;
\* and the session leaves Relaying only for Done, with both directions shut
\* down, or for Failed.
C20_HalfClose ==
    [][\A s \in SessionIds :
          /\ sessions'[s].state = "Relaying" =>
                \A d \in Dirs :
                    LET q == sessions'[s].relay[d] IN
                    /\ q.read = q.written + q.buf
                    /\ q.shut => q.eof /\ q.buf = 0 /\ q.written = q.read
          /\ ( /\ sessions[s].state = "Relaying"
               /\ sessions'[s].state # "Relaying" ) =>
                \/ sessions'[s].state = "Failed"
                \/ /\ sessions'[s].state = "Done"
                   /\ \A d \in Dirs : sessions[s].relay[d].shut]_vars

C20_Witness ==
    \E s \in SessionIds :
        /\ sessions[s].state = "Relaying"
        /\ sessions[s].relay["up"].eof
        /\ sessions[s].relay["up"].buf > 0
        /\ ~sessions[s].relay["up"].shut
        /\ sessions[s].relay["down"].shut
        /\ sessions[s].relay["down"].written = MaxBytes

\* A call made for session s fails with a temporary error in this step.
MeetsAgain(s) == sessions'[s].transients > sessions[s].transients

\* C21: a step in which a call made for a session fails with EAGAIN,
\* EWOULDBLOCK or EINTR leaves the session in its state, with its
\* interface, sockets and registrations, and leaves every use_count as it
\* was; no session is made or ended by it.
C21_AgainParks ==
    [][\A s \in SessionIds :
          MeetsAgain(s) =>
              /\ Untouched(s)
              /\ heap' = heap
              /\ phase' = phase
              /\ \A t \in SessionIds \ {s} : sessions'[t] = sessions[t]]_vars

C21_Witness ==
    \E s \in SessionIds :
        /\ sessions[s].state = "Relaying"
        /\ sessions[s].transients = 2
        /\ sessions[s].relay["up"].buf > 0
        /\ heap[sessions[s].iface].use_count = 1

\* ------------------------------------------------ properties of the sockets

\* A descriptor that is not left open: never made, or closed once.
NotLeftOpen(fd) == fd \in {"none", "closed"}

\* C11: no descriptor is closed twice; a listener or outbound socket whose
\* creation failed is closed with no handle returned; and once a session
\* has ended, its inbound socket and the socket opened for it on the
\* interface have each been closed exactly once.
C11_ClosedExactlyOnce ==
    /\ \A k \in 1 .. Len(listeners) :
          /\ listeners[k].fd # "twice"
          /\ ~listeners[k].handle => NotLeftOpen(listeners[k].fd)
    /\ \A s \in SessionIds :
          /\ sessions[s].in_sock # "twice"
          /\ sessions[s].out_fd # "twice"
          /\ Ended(sessions[s]) =>
                /\ sessions[s].in_sock = "closed"
                /\ NotLeftOpen(sessions[s].out_fd)

\* ------------------------------------------------- properties of the startup

ListenAddrs == [k \in 1 .. Len(listeners) |-> listeners[k].addr]

\* C18: the event loop runs only if an interface was given; it then runs
\* with one listener per --bind argument, in order, or, when no --bind was
\* given, with exactly the listeners 127.0.0.1:1080 and [::1]:1080; every
\* one of these listeners is open.
C18_Startup ==
    phase = "running" =>
        /\ Len(heap) > 0
        /\ bound = 1 => bind_args # <<>> /\ ListenAddrs = bind_args
        /\ bound = 0 => ListenAddrs = <<"127.0.0.1:1080", "[::1]:1080">>
        /\ \A k \in 1 .. Len(listeners) :
              listeners[k].handle /\ listeners[k].fd = "open"

C18_Witness ==
    /\ phase = "running"
    /\ bound = 1
    /\ Len(bind_args) = 2
    /\ Len(heap) = 2

\* ---------------------------------------------- properties of the addresses

\* The eight groups of an IPv6 address, each the number its two bytes
\* spell in network order.
GroupsOf(addr) ==
    [i \in 1 .. 8 |-> addr.ip[2 * i - 1] * 256 + addr.ip[2 * i]]

\* The runs of zero groups of g that cannot be extended: <<first, length>>.
ZeroRuns(g) ==
    {r \in (1 .. 8) \X (1 .. 8) :
        /\ r[1] + r[2] - 1 <= 8
        /\ \A j \in r[1] .. r[1] + r[2] - 1 : g[j] = 0
        /\ r[1] = 1 \/ g[r[1] - 1] # 0
        /\ r[1] + r[2] - 1 = 8 \/ g[r[1] + r[2]] # 0}

\* The longest run, the earliest among the longest.
BestRun(g) ==
    CHOOSE r \in ZeroRuns(g) :
        \A q \in ZeroRuns(g) : q[2] < r[2] \/ (q[2] = r[2] /\ q[1] >= r[1])

\* A number in lowercase hex without leading zeros.
RECURSIVE LowerHex(_)
LowerHex(v) ==
    LET digit == <<SubSeq(<<"0", "1", "2", "3", "4", "5", "6", "7", "8", "9",
                            "a", "b", "c", "d", "e", "f">>,
                          (v % 16) + 1, (v % 16) + 1)[1]>> IN
    IF v < 16 THEN digit ELSE LowerHex(v \div 16) \o digit

HexGroups(g, from, to) ==
    Join([j \in 1 .. to - from + 1 |-> LowerHex(g[from + j - 1])], <<":">>)

\* The text the address with groups g is to be written as.
Canonical6(g) ==
    IF ZeroRuns(g) = {}
    THEN <<"[">> \o HexGroups(g, 1, 8) \o <<"]">>
    ELSE LET r == BestRun(g) IN
         <<"[">> \o HexGroups(g, 1, r[1] - 1) \o <<":", ":">>
         \o HexGroups(g, r[1] + r[2], 8) \o <<"]">>

\* C16: host_address_to_str writes an IPv6 address in brackets, with "::"
\* in place of its longest run of zero groups (the earliest of the longest;
\* a single zero group counts; without a zero group there is no "::"),
\* every other group in lowercase hex without leading zeros; and
\* host_address_from_str reads that text back as the same address.
C16_HostToStr ==
    ( /\ conv.op \in {"host_address_to_str", "host_address_from_str"}
      /\ conv.addr # NoAddress
      /\ conv.addr.type = "NETWORK_INET6" ) =>
        /\ conv.text = Canonical6(GroupsOf(conv.addr))
        /\ conv.op = "host_address_from_str" =>
              /\ conv.status = "STATUS_SUCCESS"
              /\ conv.out = conv.addr

C16_Witness ==
    /\ conv.op = "host_address_from_str"
    /\ conv.addr # NoAddress
    /\ conv.addr.type = "NETWORK_INET6"
    /\ conv.out = conv.addr
    /\ \E r, q \in ZeroRuns(GroupsOf(conv.addr)) :
          /\ r = BestRun(GroupsOf(conv.addr))
          /\ q[2] = r[2]
          /\ q[1] > r[1]
          /\ r[1] > 1

\* C17: socket_address_from_str succeeds only on a text whose port is a
\* number in 1..65535, and then returns that port; and it reads the text
\* socket_address_to_str wrote for an address with such a port back as
\* the same address.
C17_PortRange ==
    conv.op = "socket_address_from_str" =>
        /\ conv.status = "STATUS_SUCCESS" =>
              /\ conv.given \in 1 .. 65535
              /\ ntohs(conv.out.port) = conv.given
        /\ conv.addr # NoAddress =>
              /\ conv.status = "STATUS_SUCCESS"
              /\ conv.out = conv.addr

\* C22: when host_address_from_str or socket_address_from_str returns
\* STATUS_FAILURE, the caller's address holds what it held before the call;
\* the texts with a missing bracket, an unparsable host, a missing, empty
\* or unparsable port all make it fail.
C22_FailureLeavesOutput ==
    conv.op \in {"host_address_from_str", "socket_address_from_str"} =>
        /\ conv.status \in {"STATUS_SUCCESS", "STATUS_FAILURE"}
        /\ conv.status = "STATUS_FAILURE" => conv.out = conv.prior
        /\ ( \/ /\ conv.op = "host_address_from_str"
                /\ conv.text \in BadHostTexts
             \/ /\ conv.op = "socket_address_from_str"
                /\ conv.text \in BadSocketTexts ) =>
              conv.status = "STATUS_FAILURE"

C22_Witness ==
    /\ conv.op = "socket_address_from_str"
    /\ conv.status = "STATUS_FAILURE"
    /\ conv.prior \in PriorSockets
    /\ conv.prior.host.type = "NETWORK_INET6"
    /\ conv.out = conv.prior
    /\ conv.text[Len(conv.text)] = ":"

====
